---------------------------- MODULE Spec2Model ----------------------------
(* A model of the cAST compressor of code_indexer/c_ast_compressor.py:     *)
(* the module-level lazy parser, CCompressor.compress and the recursive    *)
(* classification, sibling merging, similarity and rendering it calls.     *)
(*                                                                         *)
(* Text is a sequence of one-character strings, so len(), strip(),         *)
(* split() and slicing are computed character by character.  A rational    *)
(* is a record [num, den], den > 0; a threshold is given in hundredths.    *)
EXTENDS Integers, Sequences, FiniteSets, TLC

VARIABLES
    grammar_ok,      \* environment: does get_parser('java') succeed
    java_parser,     \* the module global _java_parser: "None" or "parser"
    get_parser_calls,\* how often get_parser('java') has been invoked
    warnings,        \* how often the "Warning: Failed to initialize" line was printed
    threshold,       \* self.similarity_threshold, in hundredths
    max_ratio,       \* self.max_compression_ratio, in hundredths
    stats,           \* self.stats of the one CCompressor instance
    calls,           \* number of compress() calls made so far
    last,            \* the last compress() call: its input, what it built and returned
    repeated,        \* was the last call given the same source text as the call before it
    merge_calls      \* number of direct calls of _merge_similar_siblings made so far

vars == <<grammar_ok, java_parser, get_parser_calls, warnings, threshold,
          max_ratio, stats, calls, last, repeated, merge_calls>>

-----------------------------------------------------------------------------
(* Bounds of the model *)

MaxStmts == 4
MaxCalls == 2
MaxSiblings == 5
MaxAround == 2
MaxMergeCalls == 1

-----------------------------------------------------------------------------
(* Strings and lists *)

SP == " "

Min2(a, b) == IF a <= b THEN a ELSE b
Max2(a, b) == IF a >= b THEN a ELSE b
Abs(a) == IF a >= 0 THEN a ELSE 0 - a

\* F applied to the value of v, which is computed once
Bind(v, F(_)) == CHOOSE r \in {F(x) : x \in {v}} : TRUE

Bind2(v, w, F(_, _)) == CHOOSE r \in {F(x, y) : x \in {v}, y \in {w}} : TRUE

\* a list comprehension, as the list of its values
List(f) == f \o <<>>

RECURSIVE FlattenFrom(_, _)
FlattenFrom(ss, i) == IF i > Len(ss) THEN <<>> ELSE ss[i] \o FlattenFrom(ss, i + 1)

\* ''.join(ss) and the concatenation of lists
Concat(ss0) == Bind(List(ss0), LAMBDA ss : FlattenFrom(ss, 1))

RECURSIVE JoinFrom(_, _)
JoinFrom(ss, i) ==
    IF i > Len(ss) THEN <<>>
    ELSE IF i = Len(ss) THEN ss[i]
    ELSE ss[i] \o <<SP>> \o JoinFrom(ss, i + 1)

\* ' '.join(ss)
JoinSpace(ss0) == Bind(ss0, LAMBDA ss : JoinFrom(ss, 1))

Spaces(n) == List([i \in 1..n |-> SP])

\* the positions of s that hold no whitespace
Inked(s) == {i \in 1..Len(s) : s[i] # SP}

\* str.strip(): drop leading and trailing whitespace
Strip(s0) ==
    Bind(s0, LAMBDA s :
        Bind(Inked(s), LAMBDA ns :
            IF ns = {} THEN <<>>
            ELSE SubSeq(s, CHOOSE i \in ns : \A j \in ns : i <= j,
                           CHOOSE i \in ns : \A j \in ns : i >= j)))

\* the start positions of the whitespace-separated words of s
WordStarts(s) == {i \in 1..Len(s) : s[i] # SP /\ (i = 1 \/ s[i-1] = SP)}

WordEnd(s, i) ==
    CHOOSE j \in i..Len(s) :
        /\ \A k \in i..j : s[k] # SP
        /\ (j = Len(s) \/ s[j+1] = SP)

\* len(s.split())
TokenCount(s0) == Bind(s0, LAMBDA s : Cardinality(WordStarts(s)))

LowerChar(c) ==
    CASE c = "A" -> "a" [] c = "B" -> "b" [] c = "C" -> "c" [] c = "D" -> "d"
      [] c = "E" -> "e" [] OTHER -> c

\* str.lower()
Lower(s0) == Bind(s0, LAMBDA s : List([i \in 1..Len(s) |-> LowerChar(s[i])]))

\* set(s.lower().split())
TokenSet(s0) ==
    Bind(Lower(s0), LAMBDA l : {SubSeq(l, i, WordEnd(l, i)) : i \in WordStarts(l)})

\* dict.get(key, default)
Get(d, key, default) == IF key \in DOMAIN d THEN d[key] ELSE default

Ratio(n, d) == [num |-> n, den |-> d]
Zero == Ratio(0, 1)
One == Ratio(1, 1)
RatioEq(a, b) == a.num * b.den = b.num * a.den
RatioLe(a, b) == a.num * b.den <= b.num * a.den

-----------------------------------------------------------------------------
(* Class configuration of CCompressor *)

SIMILARITY_THRESHOLD == 70
MAX_COMPRESSION_RATIO == 60

PRESERVE_NODE_TYPES ==
    {"if_statement", "for_statement", "while_statement", "enhanced_for_statement",
     "try_statement", "catch_clause", "finally_clause", "switch_statement",
     "case_statement",
     "method_declaration", "class_declaration", "interface_declaration",
     "constructor_declaration", "field_declaration",
     "assignment_expression", "return_statement", "throw_statement",
     "block"}

MERGEABLE_NODE_TYPES ==
    {"expression_statement", "local_variable_declaration", "method_invocation",
     "binary_expression", "unary_expression", "argument_list", "field_access",
     "array_access"}

\* skip_types of _ast_to_pseudo_code, as node kinds
SkipKinds == {"(", ")", "{", "}", "[", "]", ";", ",", ".", "<", ">"}

\* skip_types of _ast_to_pseudo_code, as texts
SkipTexts == {<<k>> : k \in SkipKinds}

\* 'for' in kind, 'if' in kind: over the kinds the model uses
ContainsFor(kind) ==
    kind \in {"for_statement", "enhanced_for_statement", "for", "formal_parameters"}
ContainsIf(kind) == kind \in {"if_statement", "if", "modifiers", "identifier"}

-----------------------------------------------------------------------------
(* Source trees, as the parser returns them.  A node with children carries *)
(* no text of its own in the model: the code reads node.text only of a     *)
(* node without children.  ws is the whitespace in front of a token in the *)
(* source text; the parser drops it and the compressor never reads it.     *)

Tok(kind, text, named, ws) ==
    [type |-> kind, is_named |-> named, children |-> <<>>, text |-> text, ws |-> ws]

Node(kind, children) == [type |-> kind, is_named |-> TRUE, children |-> children]

\* an anonymous token: its kind is its text
Punct(c, ws) == Tok(c, <<c>>, FALSE, ws)

Ident(text, ws) == Tok("identifier", text, TRUE, ws)

RECURSIVE LeavesOf(_)
LeavesOf(node) ==
    IF node.children = <<>> THEN <<node>>
    ELSE Concat([i \in 1..Len(node.children) |-> LeavesOf(node.children[i])])

\* the text the tree was parsed from
SourceOf(root) ==
    Bind(LeavesOf(root), LAMBDA ls : Concat([i \in 1..Len(ls) |-> Spaces(ls[i].ws) \o ls[i].text]))

RECURSIVE NodesOf(_)
NodesOf(node) ==
    <<node>> \o Concat([i \in 1..Len(node.children) |-> NodesOf(node.children[i])])

\* obj.setA(x);  with the setter and the argument named after the position
SetterName(i) == <<"s", "e", "t">> \o <<<<"A">>, <<"B">>, <<"C">>, <<"D">>, <<"E">>>>[((i - 1) % 5) + 1]
ArgName(i) == <<<<"x">>, <<"y">>, <<"z">>, <<"w">>, <<"v">>>>[((i - 1) % 5) + 1]

SetterStmt(i) ==
    Node("expression_statement", <<
        Node("method_invocation", <<
            Ident(<<"o", "b", "j">>, 1), Punct(".", 0), Ident(SetterName(i), 0),
            Node("argument_list", << Punct("(", 0), Ident(ArgName(i), 0), Punct(")", 0) >>) >>),
        Punct(";", 0) >>)

\* x=a+b;  written without any whitespace
AssignStmt ==
    Node("expression_statement", <<
        Node("assignment_expression", <<
            Ident(<<"x">>, 0), Punct("=", 0),
            Node("binary_expression", << Ident(<<"a">>, 0), Punct("+", 0), Ident(<<"b">>, 0) >>) >>),
        Punct(";", 0) >>)

\* result=first+second;  and  result=first+thirds;
LongName(i) ==
    IF i = 1 THEN <<"s", "e", "c", "o", "n", "d">> ELSE <<"t", "h", "i", "r", "d", "s">>

LongAssignStmt(i) ==
    Node("expression_statement", <<
        Node("assignment_expression", <<
            Ident(<<"r", "e", "s", "u", "l", "t">>, 0), Punct("=", 0),
            Node("binary_expression", <<
                Ident(<<"f", "i", "r", "s", "t">>, 0), Punct("+", 0), Ident(LongName(i), 0) >>) >>),
        Punct(";", 0) >>)

\* int y = 5;
DeclStmt ==
    Node("local_variable_declaration", <<
        Tok("integral_type", <<"i", "n", "t">>, TRUE, 1),
        Node("variable_declarator", <<
            Ident(<<"y">>, 1), Punct("=", 1), Tok("decimal_integer_literal", <<"5">>, TRUE, 1) >>),
        Punct(";", 0) >>)

\* return x;
ReturnStmt ==
    Node("return_statement", <<
        Tok("return", <<"r", "e", "t", "u", "r", "n">>, FALSE, 1), Ident(<<"x">>, 1), Punct(";", 0) >>)

Block(stmts) == Node("block", <<Punct("{", 0)>> \o stmts \o <<Punct("}", 0)>>)

\* if (c) { ... }
IfStmt(body) ==
    Node("if_statement", <<
        Tok("if", <<"i", "f">>, FALSE, 1),
        Node("parenthesized_expression", << Punct("(", 1), Ident(<<"c">>, 0), Punct(")", 0) >>),
        Block(body) >>)

\* for (;;) { ... }
ForStmt(body) ==
    Node("for_statement", <<
        Tok("for", <<"f", "o", "r">>, FALSE, 1),
        Punct("(", 1), Punct(";", 0), Punct(";", 0), Punct(")", 0),
        Block(body) >>)

\* try { ... } catch (E e) { } finally { }
TryStmt(body) ==
    Node("try_statement", <<
        Tok("try", <<"t", "r", "y">>, FALSE, 1),
        Block(body),
        Node("catch_clause", <<
            Tok("catch", <<"c", "a", "t", "c", "h">>, FALSE, 1),
            Punct("(", 1),
            Node("catch_formal_parameter", <<
                Node("catch_type", << Tok("type_identifier", <<"E">>, TRUE, 0) >>),
                Ident(<<"e">>, 1) >>),
            Punct(")", 0),
            Block(<<>>) >>),
        Node("finally_clause", <<
            Tok("finally", <<"f", "i", "n", "a", "l", "l", "y">>, FALSE, 1),
            Block(<<>>) >>) >>)

\* // a b   (one token of the parser, with whitespace inside)
CommentTok == Tok("line_comment", <<"/", "/", " ", "a", " ", "b">>, TRUE, 1)

\* public void m(){ ... }
Method(stmts) ==
    Node("program", <<
        Node("method_declaration", <<
            Node("modifiers", << Tok("public", <<"p", "u", "b", "l", "i", "c">>, FALSE, 0) >>),
            Tok("void_type", <<"v", "o", "i", "d">>, TRUE, 1),
            Ident(<<"m">>, 1),
            Node("formal_parameters", << Punct("(", 0), Punct(")", 0) >>),
            Block(stmts) >>) >>)

-----------------------------------------------------------------------------
(* Compressed nodes are the dictionaries of the code: records whose fields *)
(* are the keys present.  A traversal returns the node it built together   *)
(* with the counter updates it made on self.stats, in order, and the       *)
(* operand pairs it handed to _merge_nodes.                                *)

\* _extract_text
RECURSIVE ExtractText(_)
ExtractText(node) ==
    IF Get(node, "text", <<>>) # <<>> THEN node.text
    ELSE IF Get(node, "children", <<>>) # <<>>
    THEN JoinSpace(SelectSeq(List([i \in 1..Len(node.children) |-> ExtractText(node.children[i])]),
                             LAMBDA t : t # <<>>))
    ELSE <<>>

\* a kind term that gives every pair of kinds the full weight
KindTerm_Ignored(type1, type2) == 4

\* Factor 1 of _calculate_similarity, in tenths
KindTerm(type1, type2) ==
    IF type1 = type2 THEN 4
    ELSE IF (ContainsFor(type1) /\ ContainsFor(type2)) \/ (ContainsIf(type1) /\ ContainsIf(type2))
    THEN 3
    ELSE 0

\* Factor 2 of _calculate_similarity: 0.3 * size_similarity, 0.3 or 0.1
StructTerm(n1, n2) ==
    IF n1 > 0 /\ n2 > 0
    THEN Ratio(3 * (Max2(n1, n2) - Abs(n1 - n2)), 10 * Max2(n1, n2))
    ELSE IF n1 = 0 /\ n2 = 0 THEN Ratio(3, 10)
    ELSE Ratio(1, 10)

\* an overlap term without the 0.1 given to a small overlap
OverlapTerm_AlwaysScaled(inter, union) == Ratio(3 * inter, 10 * union)

\* 0.3 * jaccard when jaccard > 0.3, else 0.1
OverlapTerm(inter, union) ==
    IF 10 * inter > 3 * union THEN Ratio(3 * inter, 10 * union) ELSE Ratio(1, 10)

\* Factor 3 of _calculate_similarity
TextTerm(text1, text2) ==
    IF text1 # <<>> /\ text2 # <<>>
    THEN Bind2(TokenSet(text1), TokenSet(text2), LAMBDA tokens1, tokens2 :
             IF tokens1 # {} /\ tokens2 # {}
             THEN OverlapTerm(Cardinality(tokens1 \cap tokens2), Cardinality(tokens1 \cup tokens2))
             ELSE Zero)
    ELSE Zero

RatioAdd(a, b) == Ratio(a.num * b.den + b.num * a.den, a.den * b.den)

\* min(score, 1.0)
CapAtOne(score) == IF RatioLe(score, One) THEN score ELSE One

\* _calculate_similarity
CalculateSimilarity(node1, node2) ==
    Bind2(ExtractText(node1), ExtractText(node2), LAMBDA text1, text2 :
        Bind(RatioAdd(RatioAdd(Ratio(KindTerm(node1.type, node2.type), 10),
                               StructTerm(Len(Get(node1, "children", <<>>)),
                                          Len(Get(node2, "children", <<>>)))),
                      TextTerm(text1, text2)),
             CapAtOne))

\* a merge that joins the two texts without the blank between them
MergedText_NoSpace(merged, text1, text2) ==
    IF text1 # <<>> /\ text2 # <<>> THEN merged @@ [text |-> text1 \o text2]
    ELSE IF text1 # <<>> THEN merged @@ [text |-> text1]
    ELSE IF text2 # <<>> THEN merged @@ [text |-> text2]
    ELSE merged

\* the text key of the dictionary _merge_nodes builds
MergedText(merged, text1, text2) ==
    IF text1 # <<>> /\ text2 # <<>> THEN merged @@ [text |-> text1 \o <<SP>> \o text2]
    ELSE IF text1 # <<>> THEN merged @@ [text |-> text1]
    ELSE IF text2 # <<>> THEN merged @@ [text |-> text2]
    ELSE merged

\* _merge_nodes
MergeNodes(node1, node2) ==
    LET children1 == Get(node1, "children", <<>>)
        children2 == Get(node2, "children", <<>>)
    IN  Bind2(ExtractText(node1), ExtractText(node2), LAMBDA text1, text2 :
            MergedText([type |-> node1.type, merged |-> TRUE, original_count |-> 2,
                        children |-> IF children1 # <<>> /\ children2 # <<>>
                                     THEN children1 \o children2
                                     ELSE IF children1 # <<>> THEN children1
                                     ELSE children2],
                       text1, text2))

\* the candidate filter of _merge_similar_siblings
IsMergeable(sibling) ==
    Get(sibling, "type", "") \in MERGEABLE_NODE_TYPES /\ ~Get(sibling, "is_leaf", FALSE)

\* a comparison that merges what is at most as similar as the threshold
MeetsThreshold_Below(similarity, thr) == similarity.num * 100 <= thr * similarity.den

\* similarity >= self.similarity_threshold
MeetsThreshold(similarity, thr) == similarity.num * 100 >= thr * similarity.den

\* what one merge adds to stats['merged_nodes']
MergedIncrement == 2

\* a round whose merge counts one node instead of the two it consumes
SweepStep_CountsOne(siblings, thr, idx1, idx2, acc) ==
    IF MeetsThreshold(CalculateSimilarity(siblings[idx1], siblings[idx2]), thr)
    THEN [merged |-> Append(acc.merged, MergeNodes(siblings[idx1], siblings[idx2])),
          skip |-> acc.skip \cup {idx1, idx2},
          count |-> acc.count + 1,
          ops |-> Append(acc.ops, <<siblings[idx1], siblings[idx2]>>),
          compared |-> Append(acc.compared, <<idx1, idx2>>)]
    ELSE [acc EXCEPT !.merged = Append(@, siblings[idx1]),
                     !.compared = Append(@, <<idx1, idx2>>)]

\* a round whose merge marks only its first operand as consumed
SweepStep_KeepsSecond(siblings, thr, idx1, idx2, acc) ==
    IF MeetsThreshold(CalculateSimilarity(siblings[idx1], siblings[idx2]), thr)
    THEN [merged |-> Append(acc.merged, MergeNodes(siblings[idx1], siblings[idx2])),
          skip |-> acc.skip \cup {idx1},
          count |-> acc.count + MergedIncrement,
          ops |-> Append(acc.ops, <<siblings[idx1], siblings[idx2]>>),
          compared |-> Append(acc.compared, <<idx1, idx2>>)]
    ELSE [acc EXCEPT !.merged = Append(@, siblings[idx1]),
                     !.compared = Append(@, <<idx1, idx2>>)]

\* one round of the greedy loop of _merge_similar_siblings, on candidates
\* idx1 and idx2 that are not skipped
SweepStep(siblings, thr, idx1, idx2, acc) ==
    IF MeetsThreshold(CalculateSimilarity(siblings[idx1], siblings[idx2]), thr)
    THEN [merged |-> Append(acc.merged, MergeNodes(siblings[idx1], siblings[idx2])),
          skip |-> acc.skip \cup {idx1, idx2},
          count |-> acc.count + MergedIncrement,
          ops |-> Append(acc.ops, <<siblings[idx1], siblings[idx2]>>),
          compared |-> Append(acc.compared, <<idx1, idx2>>)]
    ELSE [acc EXCEPT !.merged = Append(@, siblings[idx1]),
                     !.compared = Append(@, <<idx1, idx2>>)]

\* the greedy loop of _merge_similar_siblings, from candidate pair i on
RECURSIVE GreedySweep(_, _, _, _, _)
GreedySweep(siblings, mi, thr, i, acc0) ==
    Bind(acc0, LAMBDA acc :
        IF i > Len(mi) - 1 THEN acc
        ELSE IF mi[i] \in acc.skip \/ mi[i + 1] \in acc.skip
        THEN GreedySweep(siblings, mi, thr, i + 1, acc)
        ELSE GreedySweep(siblings, mi, thr, i + 1, SweepStep(siblings, thr, mi[i], mi[i + 1], acc)))

\* the indices of a list
Indices(xs) == List([i \in 1..Len(xs) |-> i])

\* the list the loop built, followed by every sibling whose index is not skipped
WithRemaining(siblings, sweep) ==
    Bind(SelectSeq(Indices(siblings), LAMBDA i : i \notin sweep.skip), LAMBDA rest :
        sweep.merged \o List([k \in 1..Len(rest) |-> siblings[rest[k]]]))

\* a return that hands out the new list whatever its length
ShorterOf_AlwaysMerged(merged, siblings) == merged

\* a return that gives up a merge pass that shrinks the list below
\* max_compression_ratio
ShorterOf_Capped(merged, siblings) ==
    IF Len(merged) * 100 < max_ratio * Len(siblings) THEN siblings
    ELSE IF Len(merged) < Len(siblings) THEN merged ELSE siblings

\* the return of _merge_similar_siblings: the new list if it is shorter
ShorterOf(merged, siblings) == IF Len(merged) < Len(siblings) THEN merged ELSE siblings

\* _merge_similar_siblings: the list returned, what was added to merged_nodes,
\* the operand pairs of _merge_nodes and the index pairs compared
MergeSimilarSiblings(siblings0, thr) ==
    Bind(siblings0, LAMBDA siblings :
        Bind(SelectSeq(Indices(siblings), LAMBDA i : IsMergeable(siblings[i])), LAMBDA idxs :
            IF Len(siblings) <= 1 \/ Len(idxs) <= 1
            THEN [list |-> siblings, count |-> 0, ops |-> <<>>, compared |-> <<>>]
            ELSE Bind(GreedySweep(siblings, idxs, thr, 1,
                                  [merged |-> <<>>, skip |-> {}, count |-> 0, ops |-> <<>>,
                                   compared |-> <<>>]),
                      LAMBDA sweep :
                          [list |-> Bind(WithRemaining(siblings, sweep),
                                         LAMBDA merged : ShorterOf(merged, siblings)),
                           count |-> sweep.count, ops |-> sweep.ops,
                           compared |-> sweep.compared])))

-----------------------------------------------------------------------------
(* Classification: _compress_ast_recursive and _preserve_node *)

\* a classification that does not count 'block' among the preserved kinds
IsPreserveKind_NoBlock(kind) == kind \in PRESERVE_NODE_TYPES \ {"block"}

\* node_type in self.PRESERVE_NODE_TYPES
IsPreserveKind(kind) == kind \in PRESERVE_NODE_TYPES

\* node_type == 'block': the parent kind whose children are merged
IsMergeParent(kind) == kind = "block"

\* if is_named: self.stats['total_nodes'] += 1
CountVisit(node) == IF node.is_named THEN <<"total">> ELSE <<>>

KidNodes(kids) == List([i \in 1..Len(kids) |-> kids[i].node])
KidEvents(kids) == Concat([i \in 1..Len(kids) |-> kids[i].events])
KidOps(kids) == Concat([i \in 1..Len(kids) |-> kids[i].ops])

\* the dictionary _preserve_node returns
Preserved(node, children) ==
    [type |-> node.type, preserved |-> TRUE, children |-> children,
     text |-> IF children = <<>> THEN node.text ELSE <<>>]

\* a classification that turns an ERROR node into a leaf without text
Classified_ErrorEmptied(node, thr, kids) ==
    IF node.type = "ERROR"
    THEN [node |-> [type |-> node.type, text |-> <<>>, is_leaf |-> TRUE],
          events |-> CountVisit(node) \o KidEvents(kids), ops |-> KidOps(kids)]
    ELSE IF Len(node.children) = 0
    THEN [node |-> [type |-> node.type, text |-> node.text, is_leaf |-> TRUE],
          events |-> CountVisit(node), ops |-> <<>>]
    ELSE IF IsMergeParent(node.type)
    THEN Bind(MergeSimilarSiblings(KidNodes(kids), thr), LAMBDA m :
             [node |-> [type |-> node.type, children |-> m.list, is_leaf |-> FALSE],
              events |-> CountVisit(node) \o KidEvents(kids)
                         \o List([i \in 1..Len(m.ops) |-> "merged"]),
              ops |-> KidOps(kids) \o m.ops])
    ELSE [node |-> [type |-> node.type, children |-> KidNodes(kids), is_leaf |-> FALSE],
          events |-> CountVisit(node) \o KidEvents(kids), ops |-> KidOps(kids)]

\* what _compress_ast_recursive returns for a node of a kind that is not
\* preserved, given the results of its children
Classified(node, thr, kids) ==
    IF Len(node.children) = 0
    THEN [node |-> [type |-> node.type, text |-> node.text, is_leaf |-> TRUE],
          events |-> CountVisit(node), ops |-> <<>>]
    ELSE IF IsMergeParent(node.type)
    THEN Bind(MergeSimilarSiblings(KidNodes(kids), thr), LAMBDA m :
             [node |-> [type |-> node.type, children |-> m.list, is_leaf |-> FALSE],
              events |-> CountVisit(node) \o KidEvents(kids)
                         \o List([i \in 1..Len(m.ops) |-> "merged"]),
              ops |-> KidOps(kids) \o m.ops])
    ELSE [node |-> [type |-> node.type, children |-> KidNodes(kids), is_leaf |-> FALSE],
          events |-> CountVisit(node) \o KidEvents(kids), ops |-> KidOps(kids)]

\* _compress_ast_recursive.  The events of a visit are in the order the code
\* performs them: "total" is stats['total_nodes'] += 1, "preserved" is
\* stats['preserved_nodes'] += 1, "merged" is stats['merged_nodes'] += 2
RECURSIVE CompressAstRecursive(_, _)
CompressAstRecursive(node, thr) ==
    Bind(List([i \in 1..Len(node.children) |-> CompressAstRecursive(node.children[i], thr)]),
         LAMBDA kids :
             IF IsPreserveKind(node.type)
             THEN [node |-> Preserved(node, KidNodes(kids)),
                   events |-> CountVisit(node) \o <<"preserved">> \o KidEvents(kids),
                   ops |-> KidOps(kids)]
             ELSE Classified(node, thr, kids))

-----------------------------------------------------------------------------
(* Rendering: _ast_to_pseudo_code and its two helpers *)

\* str(count), for the counts a merge can carry
Digits(n) == <<<<"0">>, <<"1">>, <<"2">>, <<"3">>, <<"4">>, <<"5">>, <<"6">>, <<"7">>, <<"8">>, <<"9">>>>[n + 1]

\* the characters of a kind, for the kinds a Merged node can have and the
\* kinds given to _merge_nodes directly
KindChars(kind) ==
    CASE kind = "expression_statement" ->
           <<"e", "x", "p", "r", "e", "s", "s", "i", "o", "n", "_", "s", "t", "a", "t", "e", "m", "e", "n", "t">>
      [] kind = "local_variable_declaration" ->
           <<"l", "o", "c", "a", "l", "_", "v", "a", "r", "i", "a", "b", "l", "e", "_", "d", "e", "c", "l", "a", "r", "a", "t", "i", "o", "n">>
      [] kind = "method_invocation" ->
           <<"m", "e", "t", "h", "o", "d", "_", "i", "n", "v", "o", "c", "a", "t", "i", "o", "n">>
      [] kind = "binary_expression" ->
           <<"b", "i", "n", "a", "r", "y", "_", "e", "x", "p", "r", "e", "s", "s", "i", "o", "n">>
      [] kind = "unary_expression" ->
           <<"u", "n", "a", "r", "y", "_", "e", "x", "p", "r", "e", "s", "s", "i", "o", "n">>
      [] kind = "argument_list" ->
           <<"a", "r", "g", "u", "m", "e", "n", "t", "_", "l", "i", "s", "t">>
      [] kind = "field_access" ->
           <<"f", "i", "e", "l", "d", "_", "a", "c", "c", "e", "s", "s">>
      [] kind = "array_access" ->
           <<"a", "r", "r", "a", "y", "_", "a", "c", "c", "e", "s", "s">>
      [] kind = "program" ->
           <<"p", "r", "o", "g", "r", "a", "m">>
      [] kind = "line_comment" ->
           <<"l", "i", "n", "e", "_", "c", "o", "m", "m", "e", "n", "t">>
      [] kind = "return_statement" ->
           <<"r", "e", "t", "u", "r", "n", "_", "s", "t", "a", "t", "e", "m", "e", "n", "t">>
      [] kind = "string_fragment" ->
           <<"s", "t", "r", "i", "n", "g", "_", "f", "r", "a", "g", "m", "e", "n", "t">>
      [] kind = "try_statement" ->
           <<"t", "r", "y", "_", "s", "t", "a", "t", "e", "m", "e", "n", "t">>
      [] kind = "if_statement" ->
           <<"i", "f", "_", "s", "t", "a", "t", "e", "m", "e", "n", "t">>
      [] kind = "for_statement" ->
           <<"f", "o", "r", "_", "s", "t", "a", "t", "e", "m", "e", "n", "t">>
      [] kind = "identifier" ->
           <<"i", "d", "e", "n", "t", "i", "f", "i", "e", "r">>
      [] kind = "if" ->
           <<"i", "f">>
      [] kind = "for" ->
           <<"f", "o", "r">>
      [] kind = "formal_parameters" ->
           <<"f", "o", "r", "m", "a", "l", "_", "p", "a", "r", "a", "m", "e", "t", "e", "r", "s">>
      [] OTHER -> <<"?">>

TruncateAt == 50
TruncateKeep == 47

\* a truncation that keeps 50 characters in front of the ellipsis
Truncate_KeepsFifty(text) ==
    IF Len(text) > TruncateAt THEN SubSeq(text, 1, TruncateAt) \o <<".", ".", ".">> ELSE text

\* the truncation of _render_merged_node
Truncate(text) ==
    IF Len(text) > TruncateAt THEN SubSeq(text, 1, TruncateKeep) \o <<".", ".", ".">> ELSE text

\* "/* <count>x <kind>" of _render_merged_node
MergedHead(node) ==
    <<"/", "*", SP>> \o Digits(Get(node, "original_count", 2)) \o <<"x", SP>>
    \o KindChars(Get(node, "type", ""))

\* a renderer that emits nothing for a leaf
RenderLeaf_Dropped(text) == <<>>

\* the leaf case of _ast_to_pseudo_code
RenderLeaf(text) == IF text # <<>> /\ text \notin SkipTexts THEN text \o <<SP>> ELSE <<>>

RECURSIVE AstToPseudoCode(_)
AstToPseudoCode(node) ==
    LET children == Get(node, "children", <<>>)
        rendered == Concat([i \in 1..Len(children) |-> AstToPseudoCode(children[i])])
        text == Get(node, "text", <<>>)
    IN  IF Get(node, "type", "") \in SkipKinds THEN <<>>
        ELSE IF Get(node, "preserved", FALSE)
        THEN \* _render_preserved_node
             IF children = <<>> THEN <<>> ELSE rendered
        ELSE IF Get(node, "merged", FALSE)
        THEN \* _render_merged_node
             IF text # <<>> THEN MergedHead(node) \o <<":", SP>> \o Truncate(text) \o <<SP, "*", "/", SP>>
             ELSE IF children # <<>> THEN rendered
             ELSE MergedHead(node) \o <<SP, "*", "/", SP>>
        ELSE IF Get(node, "is_leaf", FALSE)
        THEN Bind(Strip(text), RenderLeaf)
        ELSE IF children = <<>> THEN <<>> ELSE rendered

-----------------------------------------------------------------------------
(* The inputs of compress(): a source text and the tree the parser returns *)
(* for it.  The text is SourceOf(tree).                                    *)

StmtKinds == {"setter", "assign"}

StmtSeqs == UNION {[1..n -> StmtKinds] : n \in 0..MaxStmts}

Stmts(seq) == List([i \in 1..Len(seq) |-> IF seq[i] = "setter" THEN SetterStmt(i) ELSE AssignStmt])

\* the root of a blank source text has no children
Blank(n) == Tok("program", Spaces(n), TRUE, 0)

\* ;
SemicolonOnly == Node("program", << Punct(";", 0) >>)

\* a PRESERVE-kind node the parser returns without children
BareReturn == Tok("return_statement", <<"r", "e", "t", "u", "r", "n">>, TRUE, 1)

\* this is {{   as an error-tolerant parser returns it
ErrorTree ==
    Node("program", <<
        Node("ERROR", << Ident(<<"t", "h", "i", "s">>, 0), Ident(<<"i", "s">>, 1),
                         Punct("{", 1), Punct("{", 0) >>) >>)

SpecialTrees ==
    { Blank(0), Blank(1), SemicolonOnly, ErrorTree,
      Method(<<DeclStmt, DeclStmt, SetterStmt(1)>>),
      Method(<<IfStmt(<<SetterStmt(1), SetterStmt(2)>>), ReturnStmt>>),
      Method(<<CommentTok, SetterStmt(1), CommentTok, SetterStmt(2)>>),
      Method(<<SetterStmt(1), BareReturn>>),
      Method(<<IfStmt(<<>>), ForStmt(<<>>), TryStmt(<<SetterStmt(1)>>)>>) }

Trees == {Method(Stmts(seq)) : seq \in StmtSeqs} \cup SpecialTrees

\* similarity_threshold and max_compression_ratio as given to __init__, in
\* hundredths; 0 stands for None and for 0.0, which 'or' treats alike
ThresholdArgs == {0, 90}
MaxRatioArgs == {0, 30}

-----------------------------------------------------------------------------
(* The state machine: one process, one CCompressor, a sequence of calls *)

\* the dictionary __init__ and compress() assign to self.stats
ResetStats ==
    [total_nodes |-> 0, merged_nodes |-> 0, preserved_nodes |-> 0, compression_ratio |-> Zero]

\* a traversal that forgets to count the nodes it preserves
Bump_PreservedLost(st, ev) ==
    CASE ev = "total" -> [st EXCEPT !.total_nodes = @ + 1]
      [] ev = "preserved" -> st
      [] ev = "merged" -> [st EXCEPT !.merged_nodes = @ + MergedIncrement]

\* one counter update of the traversal
Bump(st, ev) ==
    CASE ev = "total" -> [st EXCEPT !.total_nodes = @ + 1]
      [] ev = "preserved" -> [st EXCEPT !.preserved_nodes = @ + 1]
      [] ev = "merged" -> [st EXCEPT !.merged_nodes = @ + MergedIncrement]

\* self.stats after the first k counter updates of a traversal
RECURSIVE StatsAfter(_, _, _)
StatsAfter(st, events, k) ==
    IF k = 0 THEN st ELSE Bump(StatsAfter(st, events, k - 1), events[k])

\* a lookup that asks get_parser('java') on every call
GetJavaParser_Refetch ==
    IF grammar_ok
    THEN [parser |-> "parser", calls |-> get_parser_calls + 1, warnings |-> warnings]
    ELSE [parser |-> "None", calls |-> get_parser_calls + 1, warnings |-> warnings + 1]

\* _get_java_parser: the global, the calls of get_parser and the warnings after it
GetJavaParser ==
    IF java_parser = "None"
    THEN IF grammar_ok
         THEN [parser |-> "parser", calls |-> get_parser_calls + 1, warnings |-> warnings]
         ELSE [parser |-> "None", calls |-> get_parser_calls + 1, warnings |-> warnings + 1]
    ELSE [parser |-> java_parser, calls |-> get_parser_calls, warnings |-> warnings]

\* a compress() that goes on counting from the statistics of the call before
StartStats_Kept(st) == st

\* the statistics compress() starts its traversal from
StartStats(st) == ResetStats

\* metrics that report ratio 1.0 for an input without tokens
Metrics_EmptyIsOne(st, source_code, compressed_code) ==
    LET original_tokens == TokenCount(source_code)
        compressed_tokens == IF compressed_code # <<>> THEN TokenCount(compressed_code) ELSE 0
        original_chars == Len(source_code)
        compressed_chars == IF compressed_code # <<>> THEN Len(compressed_code) ELSE 0
        char_ratio == IF original_chars > 0 THEN Ratio(compressed_chars, original_chars) ELSE Zero
        compression_ratio ==
            IF original_tokens > 0 THEN Ratio(compressed_tokens, original_tokens) ELSE One
    IN  [st EXCEPT !.compression_ratio = compression_ratio]
        @@ [char_compression_ratio |-> char_ratio,
            original_tokens |-> original_tokens,
            compressed_tokens |-> compressed_tokens,
            original_chars |-> original_chars,
            compressed_chars |-> compressed_chars]

\* the metrics of compress(): the stats dictionary and the result returned
Metrics(st, source_code, compressed_code) ==
    LET original_tokens == TokenCount(source_code)
        compressed_tokens == IF compressed_code # <<>> THEN TokenCount(compressed_code) ELSE 0
        original_chars == Len(source_code)
        compressed_chars == IF compressed_code # <<>> THEN Len(compressed_code) ELSE 0
        char_ratio == IF original_chars > 0 THEN Ratio(compressed_chars, original_chars) ELSE Zero
        compression_ratio ==
            IF original_tokens > 0 THEN Ratio(compressed_tokens, original_tokens) ELSE Zero
    IN  [st EXCEPT !.compression_ratio = compression_ratio]
        @@ [char_compression_ratio |-> char_ratio,
            original_tokens |-> original_tokens,
            compressed_tokens |-> compressed_tokens,
            original_chars |-> original_chars,
            compressed_chars |-> compressed_chars]

\* a degraded result that trims the text it passes through
Passthrough_Trimmed(source_code) ==
    [compressed_code |-> Strip(source_code), original_code |-> source_code,
     compression_ratio |-> One, stats |-> [error |-> "Parser not available"]]

\* the result of compress() when the parser is not available
Passthrough(source_code) ==
    [compressed_code |-> source_code, original_code |-> source_code,
     compression_ratio |-> One, stats |-> [error |-> "Parser not available"]]

Init ==
    /\ grammar_ok \in BOOLEAN
    /\ java_parser = "None"
    /\ get_parser_calls = 0
    /\ warnings = 0
    /\ \E t \in ThresholdArgs : threshold = IF t = 0 THEN SIMILARITY_THRESHOLD ELSE t
    /\ \E r \in MaxRatioArgs : max_ratio = IF r = 0 THEN MAX_COMPRESSION_RATIO ELSE r
    /\ stats = ResetStats
    /\ calls = 0
    /\ last = [path |-> "none"]
    /\ repeated = FALSE
    /\ merge_calls = 0

\* compress(source_code) when _get_java_parser() returns None
CompressDegraded(root) ==
    \E got \in {GetJavaParser} :
        /\ calls < MaxCalls
        /\ got.parser = "None"
        /\ java_parser' = got.parser
        /\ get_parser_calls' = got.calls
        /\ warnings' = got.warnings
        /\ calls' = calls + 1
        /\ \E source_code \in {SourceOf(root)} :
               /\ last' = [path |-> "degraded", source_code |-> source_code, root |-> root,
                           result |-> Passthrough(source_code)]
               /\ repeated' = ("source_code" \in DOMAIN last /\ last.source_code = source_code)
        /\ UNCHANGED <<grammar_ok, threshold, max_ratio, stats, merge_calls>>

\* the dictionary compress() returns after a parse, with what it built
Returned(root, source_code, start, c, compressed_code, final) ==
    [path |-> "parsed", source_code |-> source_code, root |-> root, start |-> start,
     compressed_ast |-> c.node, events |-> c.events, ops |-> c.ops,
     result |-> [compressed_code |-> compressed_code,
                 original_code |-> source_code,
                 compression_ratio |-> final.compression_ratio,
                 stats |-> final]]

\* the body of compress() after the parser was obtained: parse, reset the
\* statistics, classify and merge, render, compute the metrics
CompressBody(root, thr, st) ==
    Bind2(SourceOf(root), StartStats(st), LAMBDA source_code, start :
        Bind(CompressAstRecursive(root, thr), LAMBDA c :
            Bind(AstToPseudoCode(c.node), LAMBDA compressed_code :
                Bind(Metrics(StatsAfter(start, c.events, Len(c.events)),
                             source_code, compressed_code),
                     LAMBDA final : Returned(root, source_code, start, c, compressed_code, final)))))

\* compress(source_code) when _get_java_parser() returns a parser
CompressParsed(root) ==
    \E got \in {GetJavaParser} :
        /\ calls < MaxCalls
        /\ got.parser # "None"
        /\ java_parser' = got.parser
        /\ get_parser_calls' = got.calls
        /\ warnings' = got.warnings
        /\ calls' = calls + 1
        /\ \E done \in {CompressBody(root, threshold, stats)} :
               /\ stats' = done.result.stats
               /\ last' = done
               /\ repeated' = ("source_code" \in DOMAIN last /\ last.source_code = done.source_code)
        /\ UNCHANGED <<grammar_ok, threshold, max_ratio, merge_calls>>

Next ==
    \/ \E root \in Trees : CompressDegraded(root)
    \/ \E root \in Trees : CompressParsed(root)

Spec == Init /\ [][Next]_vars

-----------------------------------------------------------------------------
(* Direct calls of _merge_similar_siblings on a compressor, and the        *)
(* construction of a compressor with another configuration                 *)

\* the siblings a call is given: compressed forms of statements and of what
\* may stand between them
SetterForm == CompressAstRecursive(SetterStmt(1), SIMILARITY_THRESHOLD).node
AssignForm == CompressAstRecursive(AssignStmt, SIMILARITY_THRESHOLD).node
CommentForm == CompressAstRecursive(CommentTok, SIMILARITY_THRESHOLD).node
ReturnForm == CompressAstRecursive(ReturnStmt, SIMILARITY_THRESHOLD).node

StatementForms == {SetterForm, AssignForm}
SeparatorForms == {CommentForm, ReturnForm}

\* the compressed forms of two longer assignments, and the lists of two
\* assignment statements
LongAssignForms == {CompressAstRecursive(LongAssignStmt(i), SIMILARITY_THRESHOLD).node : i \in 1..2}
AssignmentLists == [1..2 -> {AssignForm} \cup LongAssignForms]

\* the compressed form of a declaration, and the lists of two or three
\* statements of two MERGEABLE kinds
DeclForm == CompressAstRecursive(DeclStmt, SIMILARITY_THRESHOLD).node
MixedLists == UNION {[1..k -> {SetterForm, DeclForm}] : k \in 2..3}

StatementRuns(n) == UNION {[1..k -> StatementForms] : k \in 0..n}

\* runs of statements, and runs of at most MaxAround statements with one
\* separator somewhere
SiblingLists ==
    StatementRuns(MaxSiblings)
    \cup { run[1] \o <<sep>> \o run[2] :
               run \in { r \in StatementRuns(MaxAround) \X StatementRuns(MaxAround) :
                            Len(r[1]) + Len(r[2]) <= MaxAround },
               sep \in SeparatorForms }
    \cup AssignmentLists \cup MixedLists

\* self.x = x or self.X
Configured(arg, default) == IF arg = 0 THEN default ELSE arg

\* CCompressor(similarity_threshold, max_compression_ratio): the compressor in
\* use is replaced by a newly constructed one
Construct(similarity_threshold, max_compression_ratio) ==
    /\ threshold' = Configured(similarity_threshold, SIMILARITY_THRESHOLD)
    /\ max_ratio' = Configured(max_compression_ratio, MAX_COMPRESSION_RATIO)
    /\ stats' = ResetStats
    /\ <<threshold', max_ratio'>> # <<threshold, max_ratio>>
    /\ UNCHANGED <<grammar_ok, java_parser, get_parser_calls, warnings, calls, last,
                   repeated, merge_calls>>

\* self._merge_similar_siblings(siblings, 'block')
MergeSiblings(siblings) ==
    /\ merge_calls < MaxMergeCalls
    /\ \E m \in {MergeSimilarSiblings(siblings, threshold)} :
        /\ merge_calls' = merge_calls + 1
        /\ stats' = [stats EXCEPT !.merged_nodes = @ + m.count]
        /\ last' = [path |-> "merge", siblings |-> siblings, returned |-> m.list,
                    ops |-> m.ops, compared |-> m.compared,
                    before |-> stats.merged_nodes, after |-> stats.merged_nodes + m.count,
                    threshold |-> threshold, max_ratio |-> max_ratio]
        /\ repeated' = FALSE
        /\ UNCHANGED <<grammar_ok, java_parser, get_parser_calls, warnings, threshold,
                       max_ratio, calls>>

\* the short sibling lists given to compressors of differing configuration
ConfigLists == StatementRuns(MaxAround + 1)

\* the trees given to compressors of differing configuration
ConfigTrees == {Method(<<SetterStmt(1), SetterStmt(2), AssignStmt, AssignStmt>>), ErrorTree}

\* a process in which the parser is available
InitMerge == Init /\ grammar_ok

NextMerge == \E siblings \in SiblingLists : MergeSiblings(siblings)

SpecMerge == InitMerge /\ [][NextMerge]_vars

NextConfig ==
    \/ \E t \in ThresholdArgs : \E r \in MaxRatioArgs : Construct(t, r)
    \/ \E siblings \in ConfigLists : MergeSiblings(siblings)

SpecConfig == InitMerge /\ [][NextConfig]_vars

-----------------------------------------------------------------------------
(* Direct calls of _merge_nodes, _calculate_similarity and                 *)
(* _ast_to_pseudo_code on compressed nodes                                 *)

\* the text of a string literal that holds one blank
BlankFragment == Tok("string_fragment", <<SP>>, TRUE, 0)

\* a statement the parser recovered whose only token is a missing ';' of no width
MissingStmt == Node("expression_statement", << Tok(";", <<>>, FALSE, 0) >>)

\* // a b c p q r s      // a b c t u v w z      // a t u v w
CommentA == Tok("line_comment", <<"/", "/", SP, "a", SP, "b", SP, "c", SP, "p", SP, "q", SP, "r", SP, "s">>, TRUE, 1)
CommentB == Tok("line_comment", <<"/", "/", SP, "a", SP, "b", SP, "c", SP, "t", SP, "u", SP, "v", SP, "w", SP, "z">>, TRUE, 1)
CommentC == Tok("line_comment", <<"/", "/", SP, "a", SP, "t", SP, "u", SP, "v", SP, "w">>, TRUE, 1)

\* the source nodes whose compressed forms are given to the direct calls
GivenSources ==
    { SetterStmt(1), SetterStmt(2), AssignStmt, DeclStmt, ReturnStmt, BareReturn,
      CommentTok, CommentA, CommentB, CommentC, BlankFragment, Blank(0), MissingStmt,
      IfStmt(<<>>), ForStmt(<<>>), TryStmt(<<>>),
      Ident(<<"c">>, 0), Tok("if", <<"i", "f">>, FALSE, 1), Tok("for", <<"f", "o", "r">>, FALSE, 1),
      Node("formal_parameters", << Punct("(", 0), Punct(")", 0) >>),
      Method(<<SetterStmt(1), CommentTok, IfStmt(<<AssignStmt>>), BareReturn>>) }

NodeForms == {CompressAstRecursive(src, SIMILARITY_THRESHOLD).node : src \in GivenSources}

\* a process in which two compressed nodes are at hand
InitNodes ==
    /\ grammar_ok = TRUE
    /\ java_parser = "None"
    /\ get_parser_calls = 0
    /\ warnings = 0
    /\ threshold = SIMILARITY_THRESHOLD
    /\ max_ratio = MAX_COMPRESSION_RATIO
    /\ stats = ResetStats
    /\ calls = 0
    /\ last \in {[path |-> "given", node1 |-> a, node2 |-> b] : a \in NodeForms, b \in NodeForms}
    /\ repeated = FALSE
    /\ merge_calls = 0

\* self._merge_nodes(node1, node2)
MergeNodesCall ==
    /\ last.path = "given"
    /\ last' = [path |-> "merge_nodes", node1 |-> last.node1, node2 |-> last.node2,
                returned |-> MergeNodes(last.node1, last.node2)]
    /\ UNCHANGED <<grammar_ok, java_parser, get_parser_calls, warnings, threshold,
                   max_ratio, stats, calls, repeated, merge_calls>>

\* self._calculate_similarity(node1, node2)
SimilarityCall ==
    /\ last.path = "given"
    /\ last' = [path |-> "similarity", node1 |-> last.node1, node2 |-> last.node2,
                score |-> CalculateSimilarity(last.node1, last.node2)]
    /\ UNCHANGED <<grammar_ok, java_parser, get_parser_calls, warnings, threshold,
                   max_ratio, stats, calls, repeated, merge_calls>>

\* self._ast_to_pseudo_code(node1)
RenderCall ==
    /\ last.path = "given"
    /\ last' = [path |-> "render", node |-> last.node1, node2 |-> last.node2,
                text |-> AstToPseudoCode(last.node1)]
    /\ UNCHANGED <<grammar_ok, java_parser, get_parser_calls, warnings, threshold,
                   max_ratio, stats, calls, repeated, merge_calls>>

\* self._render_merged_node(merged, 0) on the node _merge_nodes returned
RenderMergedCall ==
    /\ last.path = "merge_nodes"
    /\ last' = [path |-> "render_merged", node |-> last.returned,
                node1 |-> last.node1, node2 |-> last.node2,
                text |-> AstToPseudoCode(last.returned)]
    /\ UNCHANGED <<grammar_ok, java_parser, get_parser_calls, warnings, threshold,
                   max_ratio, stats, calls, repeated, merge_calls>>

NextNodes == MergeNodesCall \/ SimilarityCall \/ RenderCall \/ RenderMergedCall

SpecNodes == InitNodes /\ [][NextNodes]_vars

-----------------------------------------------------------------------------
(* A process in which get_parser('java') may start or stop to succeed      *)
(* between the calls                                                       *)

\* the environment: the grammar becomes available, or unavailable
GrammarChanges ==
    /\ grammar_ok' = ~grammar_ok
    /\ UNCHANGED <<java_parser, get_parser_calls, warnings, threshold, max_ratio, stats,
                   calls, last, repeated, merge_calls>>

\* the trees and the sibling list given to the calls of such a process
ParserTrees == ConfigTrees \cup {Blank(0)}
ParserLists == {<<SetterForm, SetterForm>>}

NextParser ==
    \/ GrammarChanges
    \/ \E root \in ParserTrees : CompressDegraded(root)
    \/ \E root \in ParserTrees : CompressParsed(root)
    \/ \E siblings \in ParserLists : MergeSiblings(siblings)

SpecParser == Init /\ [][NextParser]_vars

-----------------------------------------------------------------------------
(* What the properties below read off a call *)

Parsed == last.path = "parsed"
Degraded == last.path = "degraded"

Range(xs) == {xs[i] : i \in 1..Len(xs)}

\* the block of Method(stmts), in the source tree or in the compressed tree
IsMethodTree(root) ==
    /\ root.type = "program" /\ Len(root.children) = 1
    /\ root.children[1].type = "method_declaration"
BodyOf(tree) == tree.children[1].children[5]

\* the statements of a block: its children between the braces
StatementsOf(block) == SubSeq(block.children, 2, Len(block.children) - 1)

RECURSIVE HasMerged(_)
HasMerged(node) ==
    \/ Get(node, "merged", FALSE)
    \/ \E i \in 1..Len(Get(node, "children", <<>>)) : HasMerged(node.children[i])

\* the nodes of a compressed tree, in order
RECURSIVE CompressedNodesOf(_)
CompressedNodesOf(node) ==
    <<node>> \o Concat([i \in 1..Len(Get(node, "children", <<>>)) |-> CompressedNodesOf(node.children[i])])

\* the compressed form of a source node
FormOf(node, thr) == CompressAstRecursive(node, thr).node

\* four expression statements in the body, pairwise similar at the threshold
FourSimilarStatements(root, thr) ==
    /\ IsMethodTree(root)
    /\ Bind(StatementsOf(BodyOf(root)), LAMBDA stmts :
           /\ Len(stmts) = 4
           /\ \A i \in 1..4 : stmts[i].type = "expression_statement"
           /\ Bind(List([i \in 1..4 |-> FormOf(stmts[i], thr)]), LAMBDA forms :
                  \A i \in 1..4 : \A j \in 1..4 :
                      i < j => MeetsThreshold(CalculateSimilarity(forms[i], forms[j]), thr)))

\* C1: compress() with the default threshold on a method whose block holds four
\* pairwise similar expression statements leaves fewer than 4 statements in the
\* compressed block, builds a Merged node and reports merged_nodes >= 2
C1_SimilarStatementsMerged ==
    (Parsed /\ threshold = SIMILARITY_THRESHOLD /\ FourSimilarStatements(last.root, threshold))
    => /\ Len(StatementsOf(BodyOf(last.compressed_ast))) < 4
       /\ HasMerged(last.compressed_ast)
       /\ last.result.stats.merged_nodes >= 2

\* a leaf the renderer may drop: a pure-syntax token or blank text
IsSyntaxOrBlank(leaf) ==
    leaf.type \in SkipKinds \/ Strip(leaf.text) \in SkipTexts \cup {<<>>}

\* the trimmed texts of the leaves below (or at) a source node that carry content
LeafTexts(node) ==
    Bind(SelectSeq(LeavesOf(node), LAMBDA l : ~IsSyntaxOrBlank(l)), LAMBDA ls :
        List([i \in 1..Len(ls) |-> Strip(ls[i].text)]))

OccursAt(hay, needle, p) ==
    p + Len(needle) - 1 <= Len(hay) /\ SubSeq(hay, p, p + Len(needle) - 1) = needle

\* the first position >= from where needle occurs in hay, or 0
FirstAt(hay, needle, from) ==
    Bind({p \in from..Len(hay) : OccursAt(hay, needle, p)}, LAMBDA ps :
        IF ps = {} THEN 0 ELSE CHOOSE p \in ps : \A q \in ps : p <= q)

\* texts i.. occur in hay from position from on, one after the other
RECURSIVE InOrderFrom(_, _, _, _)
InOrderFrom(hay, texts, i, from) ==
    \/ i > Len(texts)
    \/ Bind(FirstAt(hay, texts[i], from), LAMBDA p :
           p # 0 /\ InOrderFrom(hay, texts, i + 1, p + Len(texts[i])))

OccurInOrder(texts0, hay) == Bind(texts0, LAMBDA texts : InOrderFrom(hay, texts, 1, 1))

\* C2: after compress(), every node of a PRESERVE kind has the texts of all its
\* content leaves in compressed_code, in source order, also when the node itself
\* has no children
C2_PreservedTextKept ==
    Parsed => \A n \in Range(NodesOf(last.root)) :
                  n.type \in PRESERVE_NODE_TYPES
                  => OccurInOrder(LeafTexts(n), last.result.compressed_code)

\* below src, every node of a PRESERVE kind became a Preserved node over the
\* compressed forms of all its children, and no child list lost a member
RECURSIVE FaithfulAt(_, _, _)
FaithfulAt(src, cmp, thr) ==
    /\ src.type \in PRESERVE_NODE_TYPES
       => /\ Get(cmp, "preserved", FALSE) /\ ~Get(cmp, "merged", FALSE)
          /\ cmp.type = src.type
          /\ cmp.children = List([i \in 1..Len(src.children) |-> FormOf(src.children[i], thr)])
    /\ Len(Get(cmp, "children", <<>>)) = Len(src.children)
    /\ \A i \in 1..Len(src.children) : FaithfulAt(src.children[i], cmp.children[i], thr)

\* _merge_similar_siblings on a sibling list: no operand of _merge_nodes is of a
\* PRESERVE kind, and every sibling of a PRESERVE kind is in the list returned
MergerSparesPreserved(siblings, thr) ==
    Bind(MergeSimilarSiblings(siblings, thr), LAMBDA m :
        /\ \A k \in 1..Len(m.ops) :
               m.ops[k][1].type \notin PRESERVE_NODE_TYPES /\ m.ops[k][2].type \notin PRESERVE_NODE_TYPES
        /\ \A i \in 1..Len(siblings) :
               siblings[i].type \in PRESERVE_NODE_TYPES => \E j \in 1..Len(m.list) : m.list[j] = siblings[i])

\* C3: a node of a PRESERVE kind is never an operand of _merge_nodes, never
\* leaves its parent's child list and is emitted as a Preserved node over the
\* compressed forms of all its source children, in order
C3_PreserveKindsKept ==
    Parsed => /\ \A k \in 1..Len(last.ops) :
                     last.ops[k][1].type \notin PRESERVE_NODE_TYPES
                     /\ last.ops[k][2].type \notin PRESERVE_NODE_TYPES
              /\ FaithfulAt(last.root, last.compressed_ast, threshold)
              /\ \A n \in Range(CompressedNodesOf(last.compressed_ast)) :
                     MergerSparesPreserved(Get(n, "children", <<>>), threshold)

\* a call that met nested PRESERVE kinds and a block of several mergeable siblings
C3_Witness ==
    /\ Parsed /\ IsMethodTree(last.root)
    /\ \E i \in 1..Len(BodyOf(last.root).children) : BodyOf(last.root).children[i].type = "if_statement"
    /\ \E n \in Range(CompressedNodesOf(last.compressed_ast)) :
           MergeSimilarSiblings(Get(n, "children", <<>>), threshold).count > 0

\* C4: without a parser compress(text) returns the text unchanged, ratio 1.0 and
\* the error statistics, for every text, the empty one included
C4_DegradedPassthrough ==
    Degraded => /\ last.result.compressed_code = last.source_code
                /\ last.result.original_code = last.source_code
                /\ RatioEq(last.result.compression_ratio, One)
                /\ last.result.stats = [error |-> "Parser not available"]
                /\ java_parser = "None"

\* the degraded call on the empty string
C4_Witness == Degraded /\ last.source_code = <<>> /\ last.result.compressed_code = <<>>

\* C5: while the parser is unavailable, get_parser('java') is invoked at most
\* once in total and the warning is printed at most once
C5_InitialisedOnce == java_parser = "None" => get_parser_calls <= 1 /\ warnings <= 1


\* C6: for every parsed input with original_chars > 0 the reported
\* char_compression_ratio lies in [0.0, 1.0]: compressed_chars <= original_chars
C6_CharRatioAtMostOne ==
    (Parsed /\ last.result.stats.original_chars > 0)
    => /\ RatioLe(Zero, last.result.stats.char_compression_ratio)
       /\ RatioLe(last.result.stats.char_compression_ratio, One)
       /\ last.result.stats.compressed_chars <= last.result.stats.original_chars

\* C7 (as claimed): for every parsed input compression_ratio is 0.0 exactly when
\* original_tokens is 0
C7_ZeroRatioIffNoTokens ==
    Parsed => (RatioEq(last.result.compression_ratio, Zero) <=> last.result.stats.original_tokens = 0)

\* C7 (amended): for every parsed input compression_ratio is 0.0 exactly when
\* original_tokens is 0 or compressed_tokens is 0; an input without tokens
\* always yields 0.0
C7_ZeroRatioIffNoTokensEitherSide ==
    Parsed => /\ RatioEq(last.result.compression_ratio, Zero)
                 <=> (last.result.stats.original_tokens = 0 \/ last.result.stats.compressed_tokens = 0)
              /\ last.result.stats.original_tokens = 0 => RatioEq(last.result.compression_ratio, Zero)
              /\ last.result.compression_ratio = last.result.stats.compression_ratio

\* a parsed input of blanks only: no token, ratio 0.0
C7_Witness ==
    /\ Parsed /\ last.source_code # <<>>
    /\ last.result.stats.original_tokens = 0
    /\ RatioEq(last.result.compression_ratio, Zero)

\* the statements of mergeable kinds in the blocks of a source tree
MergeableStatements(root) ==
    Bind(NodesOf(root), LAMBDA ns :
        Concat([i \in 1..Len(ns) |->
                  IF ns[i].type = "block"
                  THEN SelectSeq(ns[i].children,
                                 LAMBDA k : k.children # <<>> /\ k.type \in MERGEABLE_NODE_TYPES)
                  ELSE <<>>]))

\* C8: for every input with more than one mergeable statement the compressed
\* code is no longer than the original code
C8_CompressedNoLonger ==
    (Parsed /\ Len(MergeableStatements(last.root)) > 1)
    => Len(last.result.compressed_code) <= Len(last.result.original_code)

AllMergeableNamed(root) ==
    \A n \in Range(NodesOf(root)) : n.type \in MERGEABLE_NODE_TYPES => n.is_named

\* what _merge_similar_siblings adds to merged_nodes for a sibling list is even
\* and at most the number of its mergeable siblings, each of them a named node
MergerCountsPairs(siblings, thr) ==
    Bind(MergeSimilarSiblings(siblings, thr), LAMBDA m :
        /\ m.count % 2 = 0
        /\ m.count <= Cardinality({i \in 1..Len(siblings) : IsMergeable(siblings[i])}))

\* C9: when every node of a MERGEABLE kind is named, merged_nodes is even and at
\* most total_nodes after each counter update of a compress() call and in the
\* statistics it returns
C9_MergedEvenAndBounded ==
    (Parsed /\ AllMergeableNamed(last.root))
    => /\ \A k \in 0..Len(last.events) :
              Bind(StatsAfter(last.start, last.events, k), LAMBDA st :
                  st.merged_nodes % 2 = 0 /\ st.merged_nodes <= st.total_nodes)
       /\ last.result.stats.merged_nodes % 2 = 0
       /\ last.result.stats.merged_nodes <= last.result.stats.total_nodes
       /\ stats = last.result.stats
       /\ \A n \in Range(CompressedNodesOf(last.compressed_ast)) :
              MergerCountsPairs(Get(n, "children", <<>>), threshold)

\* a call whose block held several similar mergeable statements, all named
C9_Witness ==
    /\ Parsed /\ AllMergeableNamed(last.root)
    /\ FourSimilarStatements(last.root, threshold)
    /\ last.result.stats.total_nodes > 4

\* C10: a compress() call on the source tree of the call before it, by the same
\* compressor, builds the same compressed tree and returns the same
\* compressed_code, ratio and stats
C10_RepeatedRunIdentical ==
    [][(last.path = "parsed" /\ last'.path = "parsed" /\ repeated' /\ calls' = calls + 1)
       => /\ last'.compressed_ast = last.compressed_ast
          /\ last'.result = last.result
          /\ stats' = stats]_vars

\* the second of two parsed calls on one source text that has statements to count
C10_Witness ==
    /\ Parsed /\ repeated /\ calls >= 2
    /\ last.result.stats.total_nodes > 0
    /\ last.result.stats.preserved_nodes > 0


\* what a compressor fresh from __init__ returns for a tree
FreshResult(root, thr) == CompressBody(root, thr, ResetStats).result

\* C11: on a reused compressor each parsed call reports the total_nodes,
\* merged_nodes and preserved_nodes a freshly constructed compressor reports for
\* the same input
C11_CountersNotCarried ==
    Parsed => Bind(FreshResult(last.root, threshold).stats, LAMBDA fresh :
                  /\ last.result.stats.total_nodes = fresh.total_nodes
                  /\ last.result.stats.merged_nodes = fresh.merged_nodes
                  /\ last.result.stats.preserved_nodes = fresh.preserved_nodes)

\* a later parsed call of a reused compressor, on another input than the call before
C11_Witness ==
    /\ Parsed /\ calls >= 2 /\ ~repeated
    /\ last.result.stats.total_nodes > 0
    /\ last.result.stats.preserved_nodes > 0

\* the number of nodes of a source tree that are of a PRESERVE kind
PreserveCount(root) ==
    Len(SelectSeq(NodesOf(root), LAMBDA n : n.type \in PRESERVE_NODE_TYPES))

HasKind(root, kind) == \E n \in Range(NodesOf(root)) : n.type = kind

HasIfForTry(root) ==
    HasKind(root, "if_statement") /\ HasKind(root, "for_statement") /\ HasKind(root, "try_statement")

\* word is one of the whitespace-separated tokens of text
HasWord(text, word) == \E i \in WordStarts(text) : SubSeq(text, i, WordEnd(text, i)) = word

\* C12: after compress() preserved_nodes is the number of input nodes of a
\* PRESERVE kind; a method with an if, a for and a try statement reports at
\* least 3 and has the keywords if, for and try in compressed_code
C12_PreservedCounted ==
    Parsed => /\ last.result.stats.preserved_nodes = PreserveCount(last.root)
              /\ HasIfForTry(last.root)
                 => /\ last.result.stats.preserved_nodes >= 3
                    /\ HasWord(last.result.compressed_code, <<"i", "f">>)
                    /\ HasWord(last.result.compressed_code, <<"f", "o", "r">>)
                    /\ HasWord(last.result.compressed_code, <<"t", "r", "y">>)

\* a parsed method with an if, a for and a try statement
C12_Witness ==
    Parsed /\ HasIfForTry(last.root) /\ last.result.stats.preserved_nodes >= 3

\* a method declaration whose body is the two braces only
IsEmptyMethod(root) == IsMethodTree(root) /\ Len(BodyOf(root).children) = 2

\* C13: compress() of a method with an empty block body returns a compressed_code
\* that is not empty and holds the modifier, type and name of the method
C13_EmptyMethodRendered ==
    (Parsed /\ IsEmptyMethod(last.root))
    => /\ last.result.compressed_code # <<>>
       /\ LeafTexts(last.root.children[1]) # <<>>
       /\ OccurInOrder(LeafTexts(last.root.children[1]), last.result.compressed_code)

C13_Witness ==
    Parsed /\ IsEmptyMethod(last.root) /\ Len(last.result.compressed_code) > 0

\* a kind that is in neither PRESERVE_NODE_TYPES nor MERGEABLE_NODE_TYPES
IsOtherKind(kind) == kind \notin PRESERVE_NODE_TYPES \cup MERGEABLE_NODE_TYPES

\* below src, every node of another kind became a leaf when it has no children
\* and a regular node over as many children otherwise
RECURSIVE DefaultPathAt(_, _)
DefaultPathAt(src, cmp) ==
    /\ IsOtherKind(src.type)
       => IF src.children = <<>>
          THEN cmp = [type |-> src.type, text |-> src.text, is_leaf |-> TRUE]
          ELSE /\ DOMAIN cmp = {"type", "children", "is_leaf"}
               /\ cmp.type = src.type /\ cmp.is_leaf = FALSE
    /\ Len(Get(cmp, "children", <<>>)) = Len(src.children)
    /\ \A i \in 1..Len(src.children) : DefaultPathAt(src.children[i], cmp.children[i])

\* the leaves of a tree as text: a leaf of a PRESERVE kind and a syntax or blank
\* leaf give nothing, every other leaf gives its trimmed text and one blank
PlainRender(root) ==
    Bind(LeavesOf(root), LAMBDA ls :
        Concat([i \in 1..Len(ls) |->
                  IF ls[i].type \in PRESERVE_NODE_TYPES \/ IsSyntaxOrBlank(ls[i])
                  THEN <<>> ELSE Strip(ls[i].text) \o <<SP>>]))

\* C15: for every tree, ERROR and unknown kinds included, compress() returns
\* original_code equal to the input, classifies a node of a kind in neither set
\* as leaf or regular node, and renders the text of its content leaves unchanged
C15_OtherKindsFallThrough ==
    Parsed => /\ last.result.original_code = last.source_code
              /\ last.source_code = SourceOf(last.root)
              /\ DefaultPathAt(last.root, last.compressed_ast)
              /\ last.result.compressed_code = PlainRender(last.root)

\* the parsed call on text that is not Java
C15_Witness ==
    /\ Parsed /\ HasKind(last.root, "ERROR")
    /\ HasWord(last.result.compressed_code, <<"t", "h", "i", "s">>)


-----------------------------------------------------------------------------
(* What the properties below read off a direct call of the merger *)

MergeCalled == last.path = "merge"

\* the index pairs of the siblings the call merged, in the order of the merges
MergedPairs ==
    SelectSeq(last.compared,
              LAMBDA p : MeetsThreshold(CalculateSimilarity(last.siblings[p[1]], last.siblings[p[2]]),
                                        last.threshold))

IsMergedNode(node) == Get(node, "merged", FALSE)

\* the Merged nodes of a list, and its other members
MergedIn(list) == SelectSeq(list, IsMergedNode)
UnmergedIn(list) == SelectSeq(list, LAMBDA n : ~IsMergedNode(n))

\* the operands of the Merged nodes in the list the call returned
OperandsReturned ==
    IF MergedIn(last.returned) = <<>> THEN <<>>
    ELSE Concat([k \in 1..Len(last.ops) |-> <<last.ops[k][1], last.ops[k][2]>>])

Count(x, xs) == Cardinality({i \in 1..Len(xs) : xs[i] = x})

\* every sibling is in the returned list as often as in the input, as itself or
\* as an operand of a Merged node
RepresentedOnce ==
    \A x \in Range(last.siblings) \cup Range(UnmergedIn(last.returned)) \cup Range(OperandsReturned) :
        Count(x, last.siblings) = Count(x, UnmergedIn(last.returned)) + Count(x, OperandsReturned)

\* the sibling list with each merged pair replaced, at the place of its first
\* member, by the Merged node of the pair
InPlace ==
    Bind(MergedPairs, LAMBDA pairs :
        Concat([i \in 1..Len(last.siblings) |->
                  IF \E k \in 1..Len(pairs) : pairs[k][1] = i
                  THEN LET p == pairs[CHOOSE k \in 1..Len(pairs) : pairs[k][1] = i]
                       IN  <<MergeNodes(last.siblings[p[1]], last.siblings[p[2]])>>
                  ELSE IF \E k \in 1..Len(pairs) : pairs[k][2] = i THEN <<>>
                  ELSE <<last.siblings[i]>>]))

C16_OnlyAdjacentMerged ==
    MergeCalled
    => /\ Len(MergedPairs) = Len(last.ops)
       /\ \A k \in 1..Len(MergedPairs) :
              Bind(MergedPairs[k], LAMBDA p :
                  /\ p[2] = p[1] + 1
                  /\ \A i \in {p[1], p[2]} :
                         /\ last.siblings[i].type \in MERGEABLE_NODE_TYPES
                         /\ ~Get(last.siblings[i], "is_leaf", FALSE))

\* C17: the list _merge_similar_siblings returns keeps the order of the
\* siblings, each Merged node standing where its pair stood
C17_OrderKept ==
    (MergeCalled /\ RepresentedOnce /\ last.returned # last.siblings)
    => last.returned = InPlace

\* C18: in the list _merge_similar_siblings returns every input sibling is
\* represented exactly once, as itself or as an operand of one Merged node
C18_EachSiblingOnce == MergeCalled => RepresentedOnce

\* C19: _merge_similar_siblings returns a list strictly shorter than its input
\* or the input list itself
C19_ShorterOrOriginal ==
    MergeCalled => \/ Len(last.returned) < Len(last.siblings)
                   \/ last.returned = last.siblings

\* a call that merged and still returned the input list
C19_Witness ==
    /\ MergeCalled /\ Len(last.ops) > 0
    /\ last.returned = last.siblings

\* C20: a call of _merge_similar_siblings raises merged_nodes by 2 times the
\* number of Merged nodes in the list it returns, so by 0 when it returns the
\* input list
C20_CountMatchesReturned ==
    MergeCalled => /\ last.after - last.before = 2 * Len(MergedIn(last.returned))
                   /\ stats.merged_nodes = last.after


\* the pair compared in round k of the last call was merged
WasMerged(k) ==
    MeetsThreshold(CalculateSimilarity(last.siblings[last.compared[k][1]],
                                       last.siblings[last.compared[k][2]]),
                   last.threshold)

\* the candidates of the last call: the indices of its mergeable siblings
Candidates == {i \in 1..Len(last.siblings) : IsMergeable(last.siblings[i])}

\* C21: within one call of _merge_similar_siblings no sibling is an operand of
\* two merges, no operand is a Merged node, and once a pair is merged neither of
\* its members is compared again: the pair that starts at its second member is
\* skipped without a similarity being computed
C21_MergedAreTerminal ==
    MergeCalled
    => /\ \A k \in 1..Len(last.compared) :
              WasMerged(k)
              => \A j \in (k + 1)..Len(last.compared) :
                     {last.compared[j][1], last.compared[j][2]}
                     \cap {last.compared[k][1], last.compared[k][2]} = {}
       /\ \A k \in 1..Len(last.ops) :
              ~IsMergedNode(last.ops[k][1]) /\ ~IsMergedNode(last.ops[k][2])
       /\ Len(last.ops) = Len(MergedPairs)

\* a call that merged a pair whose second member is as similar to the candidate
\* after it, a pair the call never compared
C21_Witness ==
    /\ MergeCalled
    /\ \E k \in 1..Len(last.compared) :
           /\ WasMerged(k)
           /\ \E c \in Candidates :
                  /\ c > last.compared[k][2]
                  /\ \A d \in Candidates : ~(last.compared[k][2] < d /\ d < c)
                  /\ MeetsThreshold(CalculateSimilarity(last.siblings[last.compared[k][2]],
                                                        last.siblings[c]),
                                    last.threshold)
                  /\ \A j \in 1..Len(last.compared) : last.compared[j] # <<last.compared[k][2], c>>

-----------------------------------------------------------------------------
(* What the properties below read off a direct call on compressed nodes *)

ChildrenOf(node) == Get(node, "children", <<>>)

\* C22: _merge_nodes(a, b) returns a node with merged = True, the kind of a,
\* original_count 2, the children of a followed by those of b, and as text the
\* extracted texts of a and b joined by one blank when both are non-empty, the
\* non-empty one when only one is
C22_MergeNodesShape ==
    last.path = "merge_nodes"
    => Bind2(ExtractText(last.node1), ExtractText(last.node2), LAMBDA ta, tb :
           /\ last.returned.merged = TRUE
           /\ last.returned.type = last.node1.type
           /\ last.returned.original_count = 2
           /\ last.returned.children = ChildrenOf(last.node1) \o ChildrenOf(last.node2)
           /\ (ta # <<>> /\ tb # <<>>) => Get(last.returned, "text", <<>>) = ta \o <<SP>> \o tb
           /\ (ta # <<>> /\ tb = <<>>) => Get(last.returned, "text", <<>>) = ta
           /\ (ta = <<>> /\ tb # <<>>) => Get(last.returned, "text", <<>>) = tb)

\* a merge of two nodes with children of which the first has text and another
\* kind than the second, and a merge of two nodes that both have text
C22_Witness ==
    /\ last.path = "merge_nodes"
    /\ ChildrenOf(last.node1) # <<>> /\ ChildrenOf(last.node2) # <<>>
    /\ last.node1.type # last.node2.type
    /\ ExtractText(last.node1) # <<>>
    /\ Len(last.returned.children) > Len(ChildrenOf(last.node1))
    /\ Len(last.returned.text) > Len(ExtractText(last.node1))

SimilarityCalled == last.path = "similarity"

\* the kind term and the structure term as the similarity metric is described
ClaimedKindTerm(kind1, kind2) ==
    IF kind1 = kind2 THEN Ratio(4, 10)
    ELSE IF (ContainsFor(kind1) /\ ContainsFor(kind2)) \/ (ContainsIf(kind1) /\ ContainsIf(kind2))
    THEN Ratio(3, 10)
    ELSE Zero

ClaimedStructTerm(n1, n2) ==
    IF n1 > 0 /\ n2 > 0 THEN Ratio(3 * (Max2(n1, n2) - Abs(n1 - n2)), 10 * Max2(n1, n2))
    ELSE IF n1 = 0 /\ n2 = 0 THEN Ratio(3, 10)
    ELSE Ratio(1, 10)

\* |A \cap B| / |A \cup B| of the token sets of two texts, 0 when there is no token
Jaccard(text1, text2) ==
    Bind2(TokenSet(text1), TokenSet(text2), LAMBDA tokens1, tokens2 :
        IF tokens1 \cup tokens2 = {} THEN Zero
        ELSE Ratio(Cardinality(tokens1 \cap tokens2), Cardinality(tokens1 \cup tokens2)))

\* jaccard > 0.3
Significant(jaccard) == 10 * jaccard.num > 3 * jaccard.den

\* 0.3 * jaccard
Scaled(jaccard) == Ratio(3 * jaccard.num, 10 * jaccard.den)

\* the text term when it is decided by the two texts being empty or not
TextTermByText(text1, text2) ==
    IF text1 = <<>> \/ text2 = <<>> THEN Zero
    ELSE Bind(Jaccard(text1, text2), LAMBDA jaccard :
             IF Significant(jaccard) THEN Scaled(jaccard) ELSE Ratio(1, 10))

\* the text term when it is decided by the two token sets being empty or not
TextTermByTokens(text1, text2) ==
    IF TokenSet(text1) = {} \/ TokenSet(text2) = {} THEN Zero
    ELSE Bind(Jaccard(text1, text2), LAMBDA jaccard :
             IF Significant(jaccard) THEN Scaled(jaccard) ELSE Ratio(1, 10))

SumOfTerms(node1, node2, text_term) ==
    RatioAdd(RatioAdd(ClaimedKindTerm(node1.type, node2.type),
                      ClaimedStructTerm(Len(ChildrenOf(node1)), Len(ChildrenOf(node2)))),
             text_term)

InUnitInterval(score) == RatioLe(Zero, score) /\ RatioLe(score, One)

\* C23 (as claimed): _calculate_similarity returns a score in [0.0, 1.0], the
\* sum of the kind term, the structure term and a text term that is
\* 0.3 * jaccard when jaccard > 0.3, 0 when either text is empty and 0.1 for
\* every other pair of non-empty texts
C23_ScoreIsSumByText ==
    SimilarityCalled
    => /\ InUnitInterval(last.score)
       /\ RatioEq(last.score,
                  SumOfTerms(last.node1, last.node2,
                             TextTermByText(ExtractText(last.node1), ExtractText(last.node2))))

\* C23 (amended): _calculate_similarity returns a score in [0.0, 1.0], the sum
\* of the kind term, the structure term and a text term that is 0 when either
\* text has no token (it is empty or whitespace only), 0.3 * jaccard when
\* jaccard > 0.3 and 0.1 otherwise
C23_ScoreIsSumByTokens ==
    SimilarityCalled
    => /\ InUnitInterval(last.score)
       /\ RatioEq(last.score,
                  SumOfTerms(last.node1, last.node2,
                             TextTermByTokens(ExtractText(last.node1), ExtractText(last.node2))))

\* the similarity of two different statements of one kind whose token sets
\* overlap by no more than 0.3: kind 0.4, structure 0.3, text 0.1
C23_Witness ==
    /\ SimilarityCalled
    /\ last.node1.type = last.node2.type
    /\ Len(ChildrenOf(last.node1)) = 2 /\ Len(ChildrenOf(last.node2)) = 2
    /\ Bind(Jaccard(ExtractText(last.node1), ExtractText(last.node2)), LAMBDA jaccard :
           jaccard.num > 0 /\ ~Significant(jaccard))
    /\ RatioEq(last.score, Ratio(8, 10))

RenderedMerged == last.path = "render_merged"

\* '/* <original_count>x <kind>'
AnnotationHead(node) ==
    <<"/", "*", SP>> \o Digits(node.original_count) \o <<"x", SP>> \o KindChars(node.type)

\* a text of at most 50 characters, or its first 47 characters and '...'
ShownText(text) ==
    IF Len(text) <= 50 THEN text ELSE SubSeq(text, 1, 47) \o <<".", ".", ".">>

\* C24: a Merged node with text renders as '/* <original_count>x <kind>: <t> */ '
\* with t the text when it has at most 50 characters, else its first 47
\* characters and '...', so t has at most 50 characters; a Merged node without
\* text renders its children in order, and one with neither text nor children
\* renders '/* <original_count>x <kind> */ '
C24_MergedRendering ==
    RenderedMerged
    => Bind(Get(last.node, "text", <<>>), LAMBDA text :
           IF text # <<>>
           THEN /\ last.text = AnnotationHead(last.node) \o <<":", SP>> \o ShownText(text)
                                \o <<SP, "*", "/", SP>>
                /\ Len(ShownText(text)) <= 50
                /\ Len(last.text) <= Len(AnnotationHead(last.node)) + 2 + 50 + 4
           ELSE IF ChildrenOf(last.node) # <<>>
           THEN last.text = Concat([i \in 1..Len(last.node.children) |->
                                       AstToPseudoCode(last.node.children[i])])
           ELSE last.text = AnnotationHead(last.node) \o <<SP, "*", "/", SP>>)

\* the rendering of a Merged node whose text has more than 50 characters
C24_Witness ==
    /\ RenderedMerged
    /\ Len(Get(last.node, "text", <<>>)) > 50
    /\ Len(last.text) = Len(AnnotationHead(last.node)) + 56

Rendered == last.path = "render"

\* the Leaf nodes of a compressed tree, in tree order
CompressedLeaves(node) == SelectSeq(CompressedNodesOf(node), LAMBDA n : Get(n, "is_leaf", FALSE))

\* what a leaf gives to the rendering: its trimmed text and one blank, unless its
\* kind or its trimmed text is a pure-syntax token or the trimmed text is empty
LeafPiece(leaf) ==
    Bind(Strip(leaf.text), LAMBDA trimmed :
        IF leaf.type \notin SkipKinds /\ trimmed \notin SkipTexts /\ trimmed # <<>>
        THEN trimmed \o <<SP>>
        ELSE <<>>)

\* C25: for a compressed tree without a Merged node _ast_to_pseudo_code returns
\* the pieces of its leaves concatenated in tree order: Preserved and Regular
\* nodes add no text of their own
C25_RenderIsLeafPieces ==
    (Rendered /\ ~HasMerged(last.node))
    => Bind(CompressedLeaves(last.node), LAMBDA leaves :
           last.text = Concat([i \in 1..Len(leaves) |-> LeafPiece(leaves[i])]))

\* the rendering of a method with syntax tokens, a comment with blanks inside,
\* nested Preserved nodes and a Preserved node that has text and no children
C25_Witness ==
    /\ Rendered /\ ~HasMerged(last.node)
    /\ last.node.type = "program" /\ ChildrenOf(last.node) # <<>>
    /\ \E n \in Range(CompressedNodesOf(last.node)) :
           Get(n, "preserved", FALSE) /\ ChildrenOf(n) = <<>> /\ Get(n, "text", <<>>) # <<>>
    /\ \E l \in Range(CompressedLeaves(last.node)) : l.type \in SkipKinds
    /\ Len(last.text) > 0

\* needle occurs somewhere in hay
Contains(hay, needle) == FirstAt(hay, needle, 1) # 0

\* the trimmed texts of the content leaves of a compressed node
ContentTexts(node) ==
    Bind(SelectSeq(CompressedLeaves(node), LAMBDA l : LeafPiece(l) # <<>>), LAMBDA ls :
        {Strip(ls[i].text) : i \in 1..Len(ls)})

\* the Preserved nodes inside a compressed node
PreservedWithin(node) ==
    {n \in Range(CompressedNodesOf(node)) : Get(n, "preserved", FALSE)}

\* C26: the rendering of every Merged node that _merge_similar_siblings returns
\* contains each content leaf text of each Preserved node inside its operands
C26_MergedKeepsPreservedText ==
    MergeCalled
    => \A merged \in Range(MergedIn(last.returned)) :
           Bind(AstToPseudoCode(merged), LAMBDA rendering :
               \A p \in PreservedWithin(merged) :
                   \A text \in ContentTexts(p) : Contains(rendering, text))

\* C27: with the default threshold the two operands of every merge of
\* _merge_similar_siblings have the same kind, which is the kind of the Merged
\* node, and two candidates of different kinds score at most 0.6
C27_MergedHaveOneKind ==
    (MergeCalled /\ last.threshold = SIMILARITY_THRESHOLD)
    => /\ \A k \in 1..Len(last.ops) :
              /\ last.ops[k][1].type = last.ops[k][2].type
              /\ MergeNodes(last.ops[k][1], last.ops[k][2]).type = last.ops[k][2].type
       /\ \A k \in 1..Len(last.compared) :
              Bind2(last.siblings[last.compared[k][1]], last.siblings[last.compared[k][2]],
                    LAMBDA sibling1, sibling2 :
                        sibling1.type # sibling2.type
                        => RatioLe(CalculateSimilarity(sibling1, sibling2), Ratio(6, 10)))

\* a call with the default threshold that compared two candidates of different
\* kinds and merged two others
C27_Witness ==
    /\ MergeCalled /\ last.threshold = SIMILARITY_THRESHOLD
    /\ Len(last.ops) > 0
    /\ \E k \in 1..Len(last.compared) :
           last.siblings[last.compared[k][1]].type # last.siblings[last.compared[k][2]].type

\* the thresholds a compressor of the model can have
Thresholds == {Configured(t, SIMILARITY_THRESHOLD) : t \in ThresholdArgs}

\* what the last call added to merged_nodes
MergedByCall == last.after - last.before

\* C28: for the sibling list of a call, a compressor with a lower threshold adds
\* at least as much to merged_nodes, and one with a higher threshold at most as
\* much
C28_LowerThresholdMergesMore ==
    MergeCalled
    => \A t \in Thresholds :
           Bind(MergeSimilarSiblings(last.siblings, t).count, LAMBDA other :
               /\ t <= last.threshold => other >= MergedByCall
               /\ t >= last.threshold => other <= MergedByCall)

\* a call that merged one pair where the lower threshold merges two, and the
\* first pair it merged is not the first pair the lower threshold merges
C28_Witness ==
    /\ MergeCalled /\ MergedByCall = 2
    /\ \E t \in Thresholds :
           /\ t < last.threshold
           /\ Bind(MergeSimilarSiblings(last.siblings, t), LAMBDA lower :
                  lower.count = 4 /\ lower.ops[1] # last.ops[1])

\* both texts have tokens, so that their Jaccard similarity is defined
HaveTokens(node1, node2) ==
    TokenSet(ExtractText(node1)) # {} /\ TokenSet(ExtractText(node2)) # {}

\* two pairs of nodes with the same kinds and the same numbers of children
SameShape(a, b, c, d) ==
    /\ a.type = c.type /\ b.type = d.type
    /\ Len(ChildrenOf(a)) = Len(ChildrenOf(c)) /\ Len(ChildrenOf(b)) = Len(ChildrenOf(d))

\* C29: among pairs of nodes with the same kinds and child counts, the pair with
\* the larger Jaccard similarity of its token sets never has the lower score
C29_ScoreMonotoneInOverlap ==
    (SimilarityCalled /\ HaveTokens(last.node1, last.node2))
    => Bind(Jaccard(ExtractText(last.node1), ExtractText(last.node2)), LAMBDA jaccard :
           \A c \in NodeForms : \A d \in NodeForms :
               (/\ SameShape(last.node1, last.node2, c, d)
                /\ HaveTokens(c, d)
                /\ RatioLe(Jaccard(ExtractText(c), ExtractText(d)), jaccard))
               => RatioLe(CalculateSimilarity(c, d), last.score))

\* the step is a compress() call
CompressStep == calls' = calls + 1

\* C30: once _get_java_parser has returned a parser, every later step keeps that
\* parser and makes no call of get_parser, and every later compress() call takes
\* the parsed path; a compress() call that returns the degraded result leaves
\* self.stats as it was
C30_ParserKeptStatsUntouched ==
    [][/\ java_parser = "parser"
          => /\ java_parser' = "parser"
             /\ get_parser_calls' = get_parser_calls
             /\ CompressStep => last'.path = "parsed"
       /\ (CompressStep /\ last'.path = "degraded")
          => /\ stats' = stats
             /\ java_parser' = "None"]_vars

\* a second parsed call, with the grammar no longer available and get_parser
\* called once in all, by a compressor whose merger was called before
C30_Witness ==
    /\ Parsed /\ calls >= 2 /\ ~grammar_ok
    /\ java_parser = "parser" /\ get_parser_calls = 1
    /\ merge_calls > 0
=============================================================================
